---- MODULE Spec2Model ----
(***************************************************************************)
(* A model of the lox-rs scanner (src/lexer.rs), its driver get_tokens and *)
(* the Interpreter that calls it (src/treewalk.rs, src/main.rs).           *)
(*                                                                         *)
(* A character is a one-character string; a source text and a lexeme are   *)
(* sequences of characters.  Rust indices are 0-based, TLA+ sequences are  *)
(* 1-based: source[i] of the code is source[i + 1] here.                   *)
(* current_line is a u32 in the code; a source of the sizes checked here   *)
(* holds far fewer than 2^32 newlines, so the counter never wraps.         *)
(***************************************************************************)
EXTENDS Integers, Sequences, FiniteSets, TLC

\* ------------------------------------------------------------------------
\* State
\* ------------------------------------------------------------------------

VARIABLES
    scanner,    \* the Scanner of the call in progress
    pc,         \* where the driver stands
    input,      \* the source text passed to the call in progress
    result,     \* what get_tokens returned, NoResult before it returns
    sink,       \* what the current run printed to standard output
    had_error,  \* Interpreter.had_error
    spans,      \* the slice bounds of each pushed token, in push order
    prev,       \* the outcome of the previous call, <<>> when there is none
    iterations  \* the iterations of the loop of scan_tokens in the call in progress

vars == <<scanner, pc, input, result, sink, had_error, spans, prev, iterations>>

\* ------------------------------------------------------------------------
\* Bounds and input alphabets
\* ------------------------------------------------------------------------

\* Longest source drawn over the core alphabet.
MaxLen == 4

\* Longest source drawn over the full alphabet.
ShortLen == 2

\* Longest source passed to a Scanner that is used for two passes.
ReuseLen == 2

\* The newline character, the only one that moves the line counter.
NL == "\n"

\* The sentinel peek and advance return at end of input ('\0'); a source may
\* also hold this character.
NUL == "NUL"

\* The characters with a direct token kind.
PunctChars == {"(", ")", "{", "}", ",", ".", "-", "+", ";", "*"}

\* The characters that may be followed by = to form a two-character token.
OperatorChars == {"!", "=", "<", ">"}

\* The characters consumed silently.
BlankChars == {" ", "\r", "\t"}

\* Samples of the characters no branch recognizes.
OtherChars == {"@", "a", "7", "\"", "[", "]", NUL}

RecognizedChars == PunctChars \cup OperatorChars \cup BlankChars \cup {"/", NL}

Chars == RecognizedChars \cup OtherChars

\* One representative of each class of characters, for the longer sources.
CoreChars == {"(", "{", "!", "=", "/", " ", NL, "@"}

SeqsUpTo(S, n) == UNION {[1..k -> S] : k \in 0..n}

\* The sources of the repository's tests.
TestScan1 == <<"(">>

TestScan2 == <<"(", ")">>

TestScan3 == <<"!", "=", "\n", "/", "/", " ", "a", "a", "a", "\n", ">", "=", " ", "/">>

TestScan4 == <<"/", "/", " ", "t", "h", "i", "s", " ", "i", "s", " ", "a", " ", "c", "o", "m", "m", "e", "n", "t", "\n", "(", "(", " ", ")", ")", "{", "}", " ", "/", "/", " ", "g", "r", "o", "u", "p", "i", "n", "g", " ", "s", "t", "u", "f", "f", "\n", ">", "=", " ", "/", " ", "/", "/", " ", "o", "p", "e", "r", "a", "t", "o", "r", "s">>

\* A source whose second line is exactly "(( )){}".
GroupingSource == <<"\n", "(", "(", " ", ")", ")", "{", "}">>

TestSources == {TestScan1, TestScan2, TestScan3, TestScan4, GroupingSource}

Sources == SeqsUpTo(CoreChars, MaxLen) \cup SeqsUpTo(Chars, ShortLen) \cup TestSources

\* The sources passed to a Scanner that is used for two passes.
ReuseSources == SeqsUpTo(CoreChars, ReuseLen)

\* ------------------------------------------------------------------------
\* Token model, error model
\* ------------------------------------------------------------------------

\* Option::None, for a token's literal and for a match that gave no kind.
None == "None"

\* The kinds of TokenType, by the groups of its declaration.
SingleCharKinds ==
    {"LeftParen", "RightParen", "LeftBrace", "RightBrace", "LeftBracket",
     "RightBracket", "Comma", "Dot", "Minus", "Plus", "Semicolon", "Slash", "Star"}

OneOrTwoCharKinds ==
    {"Bang", "BangEqual", "Equal", "EqualEqual", "Greater", "GreaterEqual",
     "Less", "LessEqual"}

LiteralKinds == {"Identifier", "String", "Number"}

KeywordKinds ==
    {"And", "Class", "Else", "False", "Fun", "For", "If", "Nil", "Or", "Print",
     "Return", "Super", "This", "True", "Var", "While", "Lambda"}

TokenType ==
    SingleCharKinds \cup OneOrTwoCharKinds \cup LiteralKinds \cup KeywordKinds
        \cup {"Eof"}

\* Mutant of the token pushed by scan_single_token: the literal is filled
\* with the lexeme.
Token_with_literal(token_type, lexeme, line) ==
    [token_type |-> token_type, lexeme |-> lexeme,
     literal |-> <<"Str", lexeme>>, line |-> line]

Token(token_type, lexeme, line) ==
    [token_type |-> token_type, lexeme |-> lexeme, literal |-> None, line |-> line]

Token_eof(line) ==
    [token_type |-> "Eof", lexeme |-> <<>>, literal |-> None, line |-> line]

Error(line) == [message |-> "Unexpected character", line |-> line]

\* What Error::report prints: "[line {}] {}".
report(error) == <<"[line ", error.line, "] ", error.message>>

\* ------------------------------------------------------------------------
\* Scanner
\* ------------------------------------------------------------------------

\* Mutant of Scanner::new: the line counter lives on from the Scanner of the
\* previous call instead of starting at 1.
Scanner_new_keeps_line ==
    [source |-> <<>>, tokens |-> <<>>, errors |-> <<>>,
     current_line |-> IF pc = "idle" THEN 1 ELSE scanner.current_line,
     lexeme_start_idx |-> 0, current_idx |-> 0]

\* Mutant of Scanner::new: lines are counted from 0.
Scanner_new_line_zero ==
    [source |-> <<>>, tokens |-> <<>>, errors |-> <<>>,
     current_line |-> 0, lexeme_start_idx |-> 0, current_idx |-> 0]

Scanner_new ==
    [source |-> <<>>, tokens |-> <<>>, errors |-> <<>>,
     current_line |-> 1, lexeme_start_idx |-> 0, current_idx |-> 0]

exhausted_chars(sc) == sc.current_idx >= Len(sc.source)

peek(sc) == IF exhausted_chars(sc) THEN NUL ELSE sc.source[sc.current_idx + 1]

\* The character returned and the scanner after the call.
advance(sc) ==
    IF exhausted_chars(sc)
    THEN [ch |-> NUL, sc |-> sc]
    ELSE [ch |-> sc.source[sc.current_idx + 1],
          sc |-> [sc EXCEPT !.current_idx = @ + 1]]

\* Mutant of match_advance: a match is reported but not consumed.
match_advance_no_consume(sc, expected_next) ==
    IF exhausted_chars(sc) \/ sc.source[sc.current_idx + 1] # expected_next
    THEN [ok |-> FALSE, sc |-> sc]
    ELSE [ok |-> TRUE, sc |-> sc]

\* The boolean returned and the scanner after the call.
match_advance(sc, expected_next) ==
    IF exhausted_chars(sc) \/ sc.source[sc.current_idx + 1] # expected_next
    THEN [ok |-> FALSE, sc |-> sc]
    ELSE [ok |-> TRUE, sc |-> [sc EXCEPT !.current_idx = @ + 1]]

\* Mutant of the comment loop: the newline that ends the comment is consumed
\* with it.
RECURSIVE skip_comment_eats_newline(_)
skip_comment_eats_newline(sc) ==
    IF exhausted_chars(sc) THEN sc
    ELSE IF peek(sc) = NL THEN advance(sc).sc
    ELSE skip_comment_eats_newline(advance(sc).sc)

\* The loop of a commented line: while peek() != '\n' && !exhausted_chars().
RECURSIVE skip_comment(_)
skip_comment(sc) ==
    IF peek(sc) # NL /\ ~exhausted_chars(sc)
    THEN skip_comment(advance(sc).sc)
    ELSE sc

\* Mutant of single_char_type: the arm of } repeats the kind of {.
single_char_type_repeated_kind(token) ==
    CASE token = "(" -> "LeftParen"
      [] token = ")" -> "RightParen"
      [] token = "{" -> "LeftBracket"
      [] token = "}" -> "LeftBracket"
      [] token = "," -> "Comma"
      [] token = "." -> "Dot"
      [] token = "-" -> "Minus"
      [] token = "+" -> "Plus"
      [] token = ";" -> "Semicolon"
      [] token = "*" -> "Star"
      [] OTHER -> None

\* The kind of a character that needs no lookahead.
single_char_type(token) ==
    CASE token = "(" -> "LeftParen"
      [] token = ")" -> "RightParen"
      [] token = "{" -> "LeftBracket"
      [] token = "}" -> "RightBracket"
      [] token = "," -> "Comma"
      [] token = "." -> "Dot"
      [] token = "-" -> "Minus"
      [] token = "+" -> "Plus"
      [] token = ";" -> "Semicolon"
      [] token = "*" -> "Star"
      [] OTHER -> None

\* The kinds of an operator character: followed by = and alone.
operator_types(token) ==
    CASE token = "!" -> <<"BangEqual", "Bang">>
      [] token = "=" -> <<"EqualEqual", "Equal">>
      [] token = "<" -> <<"LessEqual", "Less">>
      [] token = ">" -> <<"GreaterEqual", "Greater">>

\* The indices at which peek reads self.source.
peek_reads(sc) == IF exhausted_chars(sc) THEN {} ELSE {sc.current_idx}

\* The indices at which advance reads self.source: current_idx - 1 after the
\* increment.
advance_reads(sc) == IF exhausted_chars(sc) THEN {} ELSE {sc.current_idx}

\* Mutant of match_advance_reads: the index is read without the test of
\* exhausted_chars before it.
match_advance_reads_unchecked(sc) == {sc.current_idx}

\* The indices at which match_advance reads self.source: none when
\* exhausted_chars() already decides the condition.
match_advance_reads(sc) == IF exhausted_chars(sc) THEN {} ELSE {sc.current_idx}

\* The indices read by the loop of a commented line.
RECURSIVE skip_comment_reads(_)
skip_comment_reads(sc) ==
    peek_reads(sc) \cup
        (IF peek(sc) # NL /\ ~exhausted_chars(sc)
         THEN advance_reads(sc) \cup skip_comment_reads(advance(sc).sc)
         ELSE {})

\* The indices read by the first match of scan_single_token.
match_token_type_reads(sc, token) ==
    IF token \in OperatorChars THEN match_advance_reads(sc)
    ELSE IF token = "/"
    THEN match_advance_reads(sc) \cup
             (IF match_advance(sc, "/").ok
              THEN skip_comment_reads(match_advance(sc, "/").sc)
              ELSE {})
    ELSE {}

\* The indices read by one call of scan_single_token.
scan_single_token_reads(sc) ==
    advance_reads(sc) \cup match_token_type_reads(advance(sc).sc, advance(sc).ch)

\* The first match of scan_single_token: Some(token_type) or None, and the
\* scanner after the lookahead it did.
match_token_type(sc, token) ==
    IF token \in OperatorChars
    THEN LET m == match_advance(sc, "=")
         IN [token_type |-> IF m.ok THEN operator_types(token)[1]
                                    ELSE operator_types(token)[2],
             sc |-> m.sc]
    ELSE IF token = "/"
    THEN LET m == match_advance(sc, "/")
         IN IF m.ok
            THEN [token_type |-> None, sc |-> skip_comment(m.sc)]
            ELSE [token_type |-> "Slash", sc |-> m.sc]
    ELSE [token_type |-> single_char_type(token), sc |-> sc]

\* Mutant of lexeme_slice: the slice is the first character only.
lexeme_slice_first_char(sc) ==
    SubSeq(sc.source, sc.lexeme_start_idx + 1, sc.lexeme_start_idx + 1)

\* source[lexeme_start_idx..current_idx]
lexeme_slice(sc) == SubSeq(sc.source, sc.lexeme_start_idx + 1, sc.current_idx)

\* Mutant of match_whitespace: an unrecognized character also swallows the
\* character after it.
match_whitespace_error_skips_next(sc, token) ==
    IF token \in {" ", "\r", "\t"} THEN sc
    ELSE IF token = NL THEN [sc EXCEPT !.current_line = @ + 1]
    ELSE IF token = "/" THEN sc
    ELSE [advance(sc).sc EXCEPT !.errors = Append(@, Error(sc.current_line))]

\* Mutant of match_whitespace: a carriage return counts as a line break too.
match_whitespace_cr_counts(sc, token) ==
    IF token \in {" ", "\t"} THEN sc
    ELSE IF token \in {NL, "\r"} THEN [sc EXCEPT !.current_line = @ + 1]
    ELSE IF token = "/" THEN sc
    ELSE [sc EXCEPT !.errors = Append(@, Error(sc.current_line))]

\* Mutant of match_whitespace: the arm that treats a comment like whitespace
\* is missing.
match_whitespace_comment_is_error(sc, token) ==
    IF token \in {" ", "\r", "\t"} THEN sc
    ELSE IF token = NL THEN [sc EXCEPT !.current_line = @ + 1]
    ELSE [sc EXCEPT !.errors = Append(@, Error(sc.current_line))]

\* The second match of scan_single_token, for a character that gave no kind.
match_whitespace(sc, token) ==
    IF token \in {" ", "\r", "\t"} THEN sc
    ELSE IF token = NL THEN [sc EXCEPT !.current_line = @ + 1]
    ELSE IF token = "/" THEN sc
    ELSE [sc EXCEPT !.errors = Append(@, Error(sc.current_line))]

\* Mutant of scan_single_token: a recognized token clears the errors
\* recorded before it.
scan_single_token_clears_errors(sc) ==
    LET a == advance(sc)
        token == a.ch
        m == match_token_type(a.sc, token)
    IN IF m.token_type # None
       THEN [m.sc EXCEPT !.tokens =
                 Append(@, Token(m.token_type, lexeme_slice(m.sc), m.sc.current_line)),
                         !.errors = <<>>]
       ELSE match_whitespace(m.sc, token)

scan_single_token(sc) ==
    LET a == advance(sc)
        token == a.ch
        m == match_token_type(a.sc, token)
    IN IF m.token_type # None
       THEN [m.sc EXCEPT !.tokens =
                 Append(@, Token(m.token_type, lexeme_slice(m.sc), m.sc.current_line))]
       ELSE match_whitespace(m.sc, token)

\* Mutant of scan_iteration: the assignment is written the other way round,
\* self.current_idx = self.lexeme_start_idx.
scan_iteration_swapped_assignment(sc) ==
    scan_single_token([sc EXCEPT !.current_idx = sc.lexeme_start_idx])

\* One iteration of the loop of scan_tokens.
scan_iteration(sc) ==
    scan_single_token([sc EXCEPT !.lexeme_start_idx = sc.current_idx])

RECURSIVE scan_loop(_)
scan_loop(sc) ==
    IF ~exhausted_chars(sc) THEN scan_loop(scan_iteration(sc)) ELSE sc

\* Mutant of push_eof: Eof takes the line of the last token (1 if none).
push_eof_last_token_line(sc) ==
    [sc EXCEPT !.tokens =
        Append(@, Token_eof(IF Len(sc.tokens) = 0 THEN 1
                            ELSE sc.tokens[Len(sc.tokens)].line))]

push_eof(sc) == [sc EXCEPT !.tokens = Append(@, Token_eof(sc.current_line))]

\* The whole of scan_tokens, as one function of the scanner and the source.
scan_tokens(sc, src) == push_eof(scan_loop([sc EXCEPT !.source = src]))

\* Mutant of has_errors: one error is not enough.
has_errors_more_than_one(sc) == Len(sc.errors) > 1

has_errors(sc) == Len(sc.errors) > 0

\* What report_errors prints.
report_errors(sc) == [i \in 1..Len(sc.errors) |-> report(sc.errors[i])]

\* No value returned yet.
NoResult == [tag |-> "None", val |-> <<>>]

\* The value get_tokens returns for a scanner whose scan is over.
get_tokens_result(sc) ==
    IF has_errors(sc)
    THEN [tag |-> "Err", val |-> sc.errors]
    ELSE [tag |-> "Ok", val |-> sc.tokens]

\* Interpreter::new(), nothing run yet.
Init ==
    /\ pc = "idle"
    /\ prev = <<>>
    /\ scanner = Scanner_new
    /\ input = <<>>
    /\ result = NoResult
    /\ sink = <<>>
    /\ had_error = FALSE
    /\ spans = <<>>
    /\ iterations = 0

\* ------------------------------------------------------------------------
\* Actions
\* ------------------------------------------------------------------------

\* Interpreter::run calls get_tokens: a new Scanner, and scan_tokens takes
\* the source.
CallGetTokens ==
    /\ pc = "idle"
    /\ \E src \in Sources :
           /\ scanner' = [Scanner_new EXCEPT !.source = src]
           /\ input' = src
    /\ result' = NoResult
    /\ sink' = <<>>
    /\ spans' = <<>>
    /\ iterations' = 0
    /\ pc' = "loop"
    /\ UNCHANGED <<had_error, prev>>

\* One iteration of the while loop of scan_tokens.
ScanStep ==
    /\ pc = "loop"
    /\ ~exhausted_chars(scanner)
    /\ scanner' = scan_iteration(scanner)
    /\ spans' = IF Len(scanner'.tokens) > Len(scanner.tokens)
                THEN Append(spans, <<scanner'.lexeme_start_idx, scanner'.current_idx>>)
                ELSE spans
    /\ iterations' = iterations + 1
    /\ UNCHANGED <<pc, input, result, sink, had_error, prev>>

\* The loop ends and scan_tokens pushes Eof.
ScanEof ==
    /\ pc = "loop"
    /\ exhausted_chars(scanner)
    /\ scanner' = push_eof(scanner)
    /\ pc' = "scanned"
    /\ UNCHANGED <<input, result, sink, had_error, spans, prev, iterations>>

\* get_tokens reports the errors, if any, and returns.
GetTokensReturn ==
    /\ pc = "scanned"
    /\ result' = get_tokens_result(scanner)
    /\ sink' = IF has_errors(scanner) THEN sink \o report_errors(scanner) ELSE sink
    /\ pc' = "returned"
    /\ UNCHANGED <<scanner, input, had_error, spans, prev, iterations>>

\* Mutant of run_had_error: the flag is assigned from the result of this
\* run alone.
run_had_error_assigned(res, had) == res.tag = "Err"

\* had_error after the match of Interpreter::run: set by the Err arm, left
\* alone by the Ok arm.
run_had_error(res, had) == IF res.tag = "Err" THEN TRUE ELSE had

\* The match of Interpreter::run on the result; run_file then ends.
RunMatch ==
    /\ pc = "returned"
    /\ had_error' = run_had_error(result, had_error)
    /\ sink' = IF result.tag = "Ok"
               THEN Append(sink, <<"Parsed ", Len(result.val), " tokens!">>)
               ELSE sink
    /\ pc' = "exit"
    /\ UNCHANGED <<scanner, input, result, spans, prev, iterations>>

Next ==
    \/ CallGetTokens
    \/ ScanStep
    \/ ScanEof
    \/ GetTokensReturn
    \/ RunMatch

Spec == Init /\ [][Next]_vars

\* The match of Interpreter::run on the result, in a caller that keeps the
\* Interpreter and may call run on it again.  When run returns, the source,
\* the Scanner and the matched tokens or errors are dropped: only the
\* Interpreter lives on, and the model keeps which arm was taken.
RunMatchAndReturn ==
    /\ pc = "returned"
    /\ had_error' = run_had_error(result, had_error)
    /\ sink' = IF result.tag = "Ok"
               THEN Append(sink, <<"Parsed ", Len(result.val), " tokens!">>)
               ELSE sink
    /\ result' = [tag |-> result.tag, val |-> <<>>]
    /\ scanner' = Scanner_new
    /\ input' = <<>>
    /\ spans' = <<>>
    /\ iterations' = 0
    /\ pc' = "idle"
    /\ UNCHANGED prev

NextRuns ==
    \/ CallGetTokens
    \/ ScanStep
    \/ ScanEof
    \/ GetTokensReturn
    \/ RunMatchAndReturn

\* One Interpreter, any number of calls of run.
SpecRuns == Init /\ [][NextRuns]_vars

\* The outcome of the call that just ended, as kept for the next one.
Outcome == [input |-> input, result |-> result, scanner |-> scanner]

\* A caller of the library makes a Scanner and calls scan_tokens on it.
CallScanTokens ==
    /\ pc = "idle"
    /\ \E src \in ReuseSources :
           /\ scanner' = [Scanner_new EXCEPT !.source = src]
           /\ input' = src
    /\ iterations' = 0
    /\ pc' = "loop"
    /\ UNCHANGED <<result, sink, had_error, spans, prev>>

\* The caller calls scan_tokens a second time on the same Scanner:
\* self.source is replaced, every other field is as the first pass left it.
CallScanTokensAgain ==
    /\ pc = "scanned"
    /\ prev = <<>>
    /\ \E src \in ReuseSources :
           /\ scanner' = [scanner EXCEPT !.source = src]
           /\ input' = src
    /\ prev' = <<Outcome>>
    /\ iterations' = 0
    /\ pc' = "loop"
    /\ UNCHANGED <<result, sink, had_error, spans>>

NextReuse ==
    \/ CallScanTokens
    \/ ScanStep
    \/ ScanEof
    \/ CallScanTokensAgain

\* One Scanner, two passes of scan_tokens.
SpecReuse == Init /\ [][NextReuse]_vars

\* A caller calls get_tokens a second time with the same source text: a new
\* Scanner again.
CallGetTokensAgain ==
    /\ pc = "returned"
    /\ prev = <<>>
    /\ prev' = <<Outcome>>
    /\ scanner' = [Scanner_new EXCEPT !.source = input]
    /\ result' = NoResult
    /\ sink' = <<>>
    /\ spans' = <<>>
    /\ iterations' = 0
    /\ pc' = "loop"
    /\ UNCHANGED <<input, had_error>>

NextTwice ==
    \/ CallGetTokens
    \/ ScanStep
    \/ ScanEof
    \/ GetTokensReturn
    \/ CallGetTokensAgain

\* Two calls of get_tokens, one after the other, with the same source.
SpecTwice == Init /\ [][NextTwice]_vars

\* ------------------------------------------------------------------------
\* Reference definitions for the properties
\* ------------------------------------------------------------------------

\* The scan of the call in progress is over.
Scanned == pc \in {"scanned", "returned", "exit"}

\* get_tokens has returned.
Returned == pc \in {"returned", "exit"}

\* Position i (1-based) of src lies in a line comment: a // starts at or
\* before it with no newline from there to i.
InComment(src, i) ==
    \E j \in 1..i :
        /\ j < Len(src)
        /\ src[j] = "/"
        /\ src[j + 1] = "/"
        /\ \A k \in j..i : src[k] # NL

\* The positions of the characters outside comments that no branch recognizes.
UnrecognizedAt(src) ==
    {i \in 1..Len(src) : src[i] \notin RecognizedChars /\ ~InComment(src, i)}

\* The lexemes of the token kinds the scanner produces.
OneCharLexemes == {<<c>> : c \in PunctChars \cup OperatorChars \cup {"/"}}

TwoCharLexemes == {<<c, "=">> : c \in OperatorChars}

\* The first position at or after i that holds a newline, Len(src) + 1 if none.
RECURSIVE LineEnd(_, _)
LineEnd(src, i) ==
    IF i > Len(src) \/ src[i] = NL THEN i ELSE LineEnd(src, i + 1)

\* The left-to-right maximal-munch partition of src from position i on,
\* outside whitespace, comments and unrecognized characters: the start
\* position (0-based) and the text of each lexeme.
RECURSIVE RefLexemes(_, _)
RefLexemes(src, i) ==
    IF i > Len(src) THEN <<>>
    ELSE LET two == IF i < Len(src) THEN <<src[i], src[i + 1]>> ELSE <<>>
         IN IF two = <<"/", "/">> THEN RefLexemes(src, LineEnd(src, i))
            ELSE IF two \in TwoCharLexemes
                 THEN <<[start |-> i - 1, text |-> two]>> \o RefLexemes(src, i + 2)
            ELSE IF <<src[i]>> \in OneCharLexemes
                 THEN <<[start |-> i - 1, text |-> <<src[i]>>]>> \o RefLexemes(src, i + 1)
            ELSE RefLexemes(src, i + 1)

\* The kind of each lexeme, as the tests of the scanner expect it.
LexemeKind(text) ==
    CASE text = <<"(">> -> "LeftParen"
      [] text = <<")">> -> "RightParen"
      [] text = <<"{">> -> "LeftBracket"
      [] text = <<"}">> -> "RightBracket"
      [] text = <<",">> -> "Comma"
      [] text = <<".">> -> "Dot"
      [] text = <<"-">> -> "Minus"
      [] text = <<"+">> -> "Plus"
      [] text = <<";">> -> "Semicolon"
      [] text = <<"*">> -> "Star"
      [] text = <<"/">> -> "Slash"
      [] text = <<"!">> -> "Bang"
      [] text = <<"!", "=">> -> "BangEqual"
      [] text = <<"=">> -> "Equal"
      [] text = <<"=", "=">> -> "EqualEqual"
      [] text = <<"<">> -> "Less"
      [] text = <<"<", "=">> -> "LessEqual"
      [] text = <<">">> -> "Greater"
      [] text = <<">", "=">> -> "GreaterEqual"

\* The number of newlines among the first n characters of src.
RECURSIVE NewlinesBefore(_, _)
NewlinesBefore(src, n) ==
    IF n = 0 THEN 0
    ELSE NewlinesBefore(src, n - 1) + (IF src[n] = NL THEN 1 ELSE 0)

\* ------------------------------------------------------------------------
\* Properties
\* ------------------------------------------------------------------------

\* C1: for a source whose characters outside comments are all recognized,
\* get_tokens returns Ok, and the tokens are the lexemes of the reference
\* maximal-munch partition in source order, each with the kind of its lexeme
\* text (two tokens have the same kind only if they have the same lexeme) and
\* no literal, followed by exactly one Eof token.
C1_CleanSourcePartition ==
    (Returned /\ UnrecognizedAt(input) = {}) =>
        LET ref == RefLexemes(input, 1)
            toks == result.val
        IN /\ result.tag = "Ok"
           /\ Len(toks) = Len(ref) + 1
           /\ \A i \in 1..Len(ref) :
                  /\ toks[i].lexeme = ref[i].text
                  /\ toks[i].token_type = LexemeKind(ref[i].text)
                  /\ toks[i].literal = None
           /\ \A i, j \in 1..Len(ref) :
                  toks[i].token_type = toks[j].token_type
                      => toks[i].lexeme = toks[j].lexeme
           /\ toks[Len(toks)] = Token_eof(toks[Len(toks)].line)
           /\ \A i \in 1..Len(ref) : toks[i].token_type # "Eof"

\* C1 witness: test_scan_3 (two-character operators, a comment, a slash) has
\* returned Ok with its three tokens and Eof.
C1_Witness ==
    /\ pc = "returned"
    /\ input = TestScan3
    /\ result.tag = "Ok"
    /\ Len(result.val) = 4

\* C2: once scan_tokens is over, the token sequence is not empty, its last
\* element is Eof with an empty lexeme and no literal, no other element is
\* Eof, and the line of Eof is the line counter at exhaustion: 1 plus the
\* number of newlines of the source.
C2_EofLast ==
    Scanned =>
        LET toks == scanner.tokens
            n == Len(toks)
        IN /\ n >= 1
           /\ toks[n].token_type = "Eof"
           /\ toks[n].lexeme = <<>>
           /\ toks[n].literal = None
           /\ \A i \in 1..(n - 1) : toks[i].token_type # "Eof"
           /\ toks[n].line = scanner.current_line
           /\ toks[n].line = 1 + NewlinesBefore(input, Len(input))

\* C2 witness: a source with two newlines, an unrecognized character and a
\* token has been scanned: Eof stands on line 3.
C2_Witness ==
    /\ pc = "scanned"
    /\ input = <<NL, "@", NL, "(">>
    /\ Len(scanner.tokens) = 2
    /\ scanner.tokens[2].line = 3

\* C3: get_tokens returns Err exactly when the scan recorded an error; Err
\* holds the recorded errors in their order and each was printed once, in
\* that order, before the return; Ok holds the whole token sequence, ending
\* in Eof, and nothing was printed.
C3_ResultOfGetTokens ==
    (pc = "returned") =>
        /\ result.tag \in {"Ok", "Err"}
        /\ result.tag = "Err" <=> Len(scanner.errors) > 0
        /\ result.tag = "Err" =>
              /\ result.val = scanner.errors
              /\ Len(sink) = Len(scanner.errors)
              /\ \A i \in 1..Len(sink) : sink[i] = report(scanner.errors[i])
        /\ result.tag = "Ok" =>
              /\ result.val = scanner.tokens
              /\ result.val[Len(result.val)].token_type = "Eof"
              /\ sink = <<>>

\* C3 witness: get_tokens has returned Err with two errors, both printed,
\* for a source that also gave a token.
C3_Witness ==
    /\ pc = "returned"
    /\ result.tag = "Err"
    /\ Len(result.val) = 2
    /\ Len(sink) = 2
    /\ Len(scanner.tokens) = 2

\* The source with each unrecognized character replaced by a space.
Blanked(src) ==
    [i \in 1..Len(src) |-> IF src[i] \in RecognizedChars THEN src[i] ELSE " "]

\* C4: the tokens a scan leaves are those of the source with each
\* unrecognized character replaced by a space, and the scan ends at the end
\* of the input with Eof appended, whatever the number of errors.
C4_ErrorsAreNotFatal ==
    Scanned =>
        /\ scanner.tokens = scan_tokens(Scanner_new, Blanked(input)).tokens
        /\ scanner.current_idx = Len(input)
        /\ scanner.tokens[Len(scanner.tokens)].token_type = "Eof"

\* C4 witness: two errors were recorded and the token after each of them was
\* recognized.
C4_Witness ==
    /\ pc = "scanned"
    /\ input = <<"@", "(", "@", "{">>
    /\ Len(scanner.errors) = 2
    /\ Len(scanner.tokens) = 3

\* The token a step pushes for the lexeme text, on the current line.
PushedToken(text) ==
    [token_type |-> LexemeKind(text), lexeme |-> text, literal |-> None,
     line |-> scanner.current_line]

\* A scan step that starts on one of ! = < > : with = next it consumes both
\* characters and pushes the two-character token, otherwise it consumes one
\* character and pushes the one-character token.
OperatorStep ==
    LET i == scanner.current_idx
        src == scanner.source
        c == src[i + 1]
    IN (pc = "loop" /\ i < Len(src) /\ c \in OperatorChars) =>
          IF i + 2 <= Len(src) /\ src[i + 2] = "="
          THEN /\ scanner'.current_idx = i + 2
               /\ scanner'.tokens = Append(scanner.tokens, PushedToken(<<c, "=">>))
          ELSE /\ scanner'.current_idx = i + 1
               /\ scanner'.tokens = Append(scanner.tokens, PushedToken(<<c>>))

\* C5: maximal munch.  Every scan step that starts on ! = < > takes the
\* following = with it when there is one and only then, and pushes the
\* matching token with a lexeme of that length; no lexeme is ever longer
\* than two characters.
C5_MaximalMunch ==
    /\ [][OperatorStep]_vars
    /\ [](\A i \in 1..Len(scanner.tokens) : Len(scanner.tokens[i].lexeme) <= 2)

\* C5 witness: "===" has been scanned as EqualEqual then Equal.
C5_Witness ==
    /\ pc = "scanned"
    /\ input = <<"=", "=", "=">>
    /\ scanner.tokens[1].token_type = "EqualEqual"
    /\ scanner.tokens[1].lexeme = <<"=", "=">>
    /\ scanner.tokens[2].token_type = "Equal"
    /\ scanner.tokens[2].lexeme = <<"=">>

\* C6: line accounting.  Each token other than Eof that a scan of a fresh
\* Scanner leaves is a lexeme of the reference partition, and its line is 1
\* plus the number of newlines strictly before the first character of that
\* lexeme.
C6_LineAccounting ==
    Scanned =>
        LET ref == RefLexemes(input, 1)
            toks == scanner.tokens
        IN /\ Len(toks) = Len(ref) + 1
           /\ \A i \in 1..Len(ref) :
                  /\ toks[i].lexeme = ref[i].text
                  /\ toks[i].line = 1 + NewlinesBefore(input, ref[i].start)

\* C6 witness: test_scan_4 has been scanned; its first token stands on line 2
\* (after a comment line) and its seventh on line 3.
C6_Witness ==
    /\ pc = "scanned"
    /\ input = TestScan4
    /\ Len(scanner.tokens) = 9
    /\ scanner.tokens[1].line = 2
    /\ scanner.tokens[7].line = 3

\* The tokens pushed so far, Eof left out.
NonEofTokens ==
    IF Scanned THEN SubSeq(scanner.tokens, 1, Len(scanner.tokens) - 1)
    ELSE scanner.tokens

\* C7: lexeme round trip.  Each token other than Eof has as lexeme the slice
\* of the source between the two indices it was pushed with; the slice holds
\* one or two characters, and the slices of successive tokens do not overlap
\* and move forward.
C7_LexemeRoundTrip ==
    /\ Len(spans) = Len(NonEofTokens)
    /\ \A i \in 1..Len(spans) :
           /\ 0 <= spans[i][1]
           /\ spans[i][1] < spans[i][2]
           /\ spans[i][2] <= Len(scanner.source)
           /\ spans[i][2] - spans[i][1] \in {1, 2}
           /\ NonEofTokens[i].lexeme =
                  SubSeq(scanner.source, spans[i][1] + 1, spans[i][2])
           /\ Len(NonEofTokens[i].lexeme) \in {1, 2}
           /\ i > 1 => spans[i - 1][2] <= spans[i][1]

\* C7 witness: in the middle of a scan, a two-character token and then a
\* one-character token have been pushed from disjoint slices.
C7_Witness ==
    /\ pc = "loop"
    /\ Len(spans) = 2
    /\ spans[1] = <<0, 2>>
    /\ spans[2] = <<3, 4>>
    /\ scanner.tokens[1].lexeme = <<"!", "=">>

\* The kinds of the tokens of toks that stand on the given line.
RECURSIVE KindsOnLine(_, _)
KindsOnLine(toks, line) ==
    IF toks = <<>> THEN <<>>
    ELSE (IF Head(toks).line = line /\ Head(toks).token_type # "Eof"
          THEN <<Head(toks).token_type>> ELSE <<>>)
         \o KindsOnLine(Tail(toks), line)

\* C8: { has kind LeftBrace and } has kind RightBrace; the second line
\* "(( )){}" gives LeftParen, LeftParen, RightParen, RightParen, LeftBrace,
\* RightBrace.
C8_BraceKinds ==
    Scanned =>
        /\ \A i \in 1..Len(scanner.tokens) :
               /\ scanner.tokens[i].lexeme = <<"{">>
                      => scanner.tokens[i].token_type = "LeftBrace"
               /\ scanner.tokens[i].lexeme = <<"}">>
                      => scanner.tokens[i].token_type = "RightBrace"
        /\ input = GroupingSource =>
               KindsOnLine(scanner.tokens, 2) =
                   <<"LeftParen", "LeftParen", "RightParen", "RightParen",
                     "LeftBrace", "RightBrace">>

\* C9: no cross-pass state.  After a second scan_tokens on the same Scanner,
\* tokens and errors are what a fresh Scanner gives for the second source.
C9_NoCrossPassState ==
    (pc = "scanned" /\ prev # <<>>) =>
        LET fresh == scan_tokens(Scanner_new, input)
        IN /\ scanner.tokens = fresh.tokens
           /\ scanner.errors = fresh.errors

CursorStep ==
    /\ scanner'.current_idx >= scanner.current_idx
    /\ iterations' = iterations + 1 =>
           scanner'.current_idx >= scanner.current_idx + 1

\* C11: every scan ends, having consumed the input once.  Each iteration of
\* the loop moves current_idx forward by at least 1, current_idx never moves
\* back and never passes the length of the source, the loop ends with
\* current_idx at the length of the source, and there are never more
\* iterations than the source has characters.
C11_ScanTerminates ==
    /\ [][CursorStep]_vars
    /\ [](iterations <= Len(input))
    /\ [](Scanned => scanner.current_idx = Len(input))
    /\ [](pc = "loop" => scanner.current_idx <= Len(input))

\* C11 witness: a source that ends inside a comment, with no newline after
\* it, has been scanned in two iterations.
C11_Witness ==
    /\ pc = "scanned"
    /\ input = <<"(", "/", "/", "@">>
    /\ iterations = 2
    /\ scanner.current_idx = 4

\* A scan step that starts on / : with / next it consumes up to, not
\* including, the next newline (or to the end of the input) and leaves
\* tokens, errors and the line counter alone; otherwise it consumes the one
\* character and pushes Slash.
SlashStep ==
    LET i == scanner.current_idx
        src == scanner.source
    IN (pc = "loop" /\ i < Len(src) /\ src[i + 1] = "/") =>
          IF i + 2 <= Len(src) /\ src[i + 2] = "/"
          THEN /\ scanner'.current_idx = LineEnd(src, i + 1) - 1
               /\ scanner'.current_idx < Len(src) =>
                      src[scanner'.current_idx + 1] = NL
               /\ \A k \in (i + 1)..scanner'.current_idx : src[k] # NL
               /\ scanner'.tokens = scanner.tokens
               /\ scanner'.errors = scanner.errors
               /\ scanner'.current_line = scanner.current_line
          ELSE /\ scanner'.current_idx = i + 1
               /\ scanner'.tokens = Append(scanner.tokens, PushedToken(<<"/">>))
               /\ scanner'.errors = scanner.errors
               /\ scanner'.current_line = scanner.current_line

\* A scan step that starts on a newline consumes it and adds one to the line
\* counter.
NewlineStep ==
    LET i == scanner.current_idx
        src == scanner.source
    IN (pc = "loop" /\ i < Len(src) /\ src[i + 1] = NL) =>
          /\ scanner'.current_idx = i + 1
          /\ scanner'.current_line = scanner.current_line + 1

\* C12: line comments.  // consumes every character up to the next newline
\* (or the end of the input) without a token or an error, whatever the
\* characters; the newline is left to the next iteration, which adds one to
\* the line counter.  A / not followed by / gives Slash with lexeme "/".
C12_LineComments == [][SlashStep /\ NewlineStep]_vars

\* C12 witness: a comment holding an unrecognized character and ended by a
\* newline has been scanned: no token but Eof, on line 2, and no error.
C12_Witness ==
    /\ pc = "scanned"
    /\ input = <<"/", "/", "@", NL>>
    /\ scanner.errors = <<>>
    /\ scanner.tokens = <<Token_eof(2)>>

\* C13: bounded lookahead.  In every state 0 <= lexeme_start_idx <=
\* current_idx <= length of the source; every index a scan step reads is
\* below the length of the source; at the end of the input peek gives the
\* sentinel and match_advance gives false and consumes nothing, neither
\* reading the source; the bounds of every lexeme slice are valid.
C13_BoundedLookahead ==
    /\ 0 <= scanner.lexeme_start_idx
    /\ scanner.lexeme_start_idx <= scanner.current_idx
    /\ scanner.current_idx <= Len(scanner.source)
    /\ (pc = "loop" /\ ~exhausted_chars(scanner)) =>
           \A r \in scan_single_token_reads(scanner) :
               0 <= r /\ r < Len(scanner.source)
    /\ exhausted_chars(scanner) =>
           /\ peek(scanner) = NUL
           /\ peek_reads(scanner) = {}
           /\ \A c \in Chars :
                  /\ match_advance(scanner, c) = [ok |-> FALSE, sc |-> scanner]
                  /\ match_advance_reads(scanner) = {}
    /\ \A i \in 1..Len(spans) :
           /\ 0 <= spans[i][1]
           /\ spans[i][1] <= spans[i][2]
           /\ spans[i][2] <= Len(scanner.source)

\* C13 witness: the scan stands at the end of an input whose last character
\* was an operator character: match_advance looked ahead at the end.
C13_Witness ==
    /\ pc = "loop"
    /\ input = <<"(", "!">>
    /\ exhausted_chars(scanner)
    /\ scanner.tokens[2].token_type = "Bang"

\* The elements of a finite set of integers, in increasing order.
RECURSIVE Ascending(_)
Ascending(S) ==
    IF S = {} THEN <<>>
    ELSE LET m == CHOOSE x \in S : \A y \in S : x <= y
         IN <<m>> \o Ascending(S \ {m})

\* C14: the errors of a scan are, in source order, one per character outside
\* a comment that no branch recognizes (letters, digits and quotes among
\* them), each with the message "Unexpected character" and the line of its
\* character: 1 plus the number of newlines before it.  No other character
\* gives an error, and the lines of the errors never decrease.
C14_OneErrorPerUnrecognized ==
    Scanned =>
        LET at == Ascending(UnrecognizedAt(input))
            errs == scanner.errors
        IN /\ Len(errs) = Len(at)
           /\ \A i \in 1..Len(at) :
                  /\ errs[i].message = "Unexpected character"
                  /\ errs[i].line = 1 + NewlinesBefore(input, at[i] - 1)
           /\ \A i \in 1..(Len(errs) - 1) : errs[i].line <= errs[i + 1].line
           /\ (Len(input) = 1 /\ input[1] \in {"a", "7", "\""}) => Len(errs) = 1

\* C14 witness: two unrecognized characters on two lines, a recognized one
\* after them: two errors, on lines 1 and 2.
C14_Witness ==
    /\ pc = "scanned"
    /\ input = <<"@", NL, "@", "(">>
    /\ scanner.errors = <<Error(1), Error(2)>>

\* C15: at every point of a scan the lines of the tokens pushed so far never
\* decrease in push order and none exceeds the line counter; the line
\* counter starts at 1 and no step lowers it.
C15_LinesMonotonic ==
    /\ [](\A i, j \in 1..Len(scanner.tokens) :
             i <= j => scanner.tokens[i].line <= scanner.tokens[j].line)
    /\ [](\A i \in 1..Len(scanner.tokens) :
             scanner.tokens[i].line <= scanner.current_line)
    /\ []((pc = "loop" /\ iterations = 0) => scanner.current_line = 1)
    /\ [](scanner.current_line >= 1)
    /\ [][scanner'.current_line >= scanner.current_line]_vars

\* C15 witness: in the middle of a scan, tokens of lines 1 and 2 have been
\* pushed and the line counter stands at 3.
C15_Witness ==
    /\ pc = "loop"
    /\ Len(scanner.tokens) = 2
    /\ scanner.tokens[1].line = 1
    /\ scanner.tokens[2].line = 2
    /\ scanner.current_line = 3

\* s is t, or t with one element appended.
SameOrOneMore(s, t) ==
    s = t \/ (Len(s) = Len(t) + 1 /\ SubSeq(s, 1, Len(t)) = t)

\* The frame of the steps of a scan.  scan_single_token is entered with
\* lexeme_start_idx set to the cursor.
ScanFrame ==
    LET i == scanner.current_idx
        src == scanner.source
        entry == [scanner EXCEPT !.lexeme_start_idx = scanner.current_idx]
        pushed == scanner'.tokens # scanner.tokens
        recorded == scanner'.errors # scanner.errors
    IN (pc = "loop") =>
          /\ scanner'.source = src
          /\ SameOrOneMore(scanner'.tokens, scanner.tokens)
          /\ SameOrOneMore(scanner'.errors, scanner.errors)
          /\ ~(pushed /\ recorded)
          /\ pushed => scanner'.current_line = scanner.current_line
          /\ recorded => scanner'.current_line = scanner.current_line
          /\ (i < Len(src) /\ src[i + 1] \in {" ", "\r", "\t"}) =>
                 scanner' = [entry EXCEPT !.current_idx = i + 1]
          /\ (i < Len(src) /\ src[i + 1] = NL) =>
                 scanner' = [entry EXCEPT !.current_idx = i + 1,
                                          !.current_line = @ + 1]
          /\ (i < Len(src) /\ src[i + 1] # NL) =>
                 scanner'.current_line = scanner.current_line
          /\ i >= Len(src) => scanner'.current_line = scanner.current_line

\* C16: frame of a scan step.  Tokens and errors only grow, by at most one
\* token or one error per step and never both; a space, carriage return or
\* tab changes the cursor only; a newline changes the cursor and adds one to
\* the line counter, which no other character changes; a pushed token leaves
\* errors and line counter alone, a recorded error leaves tokens and line
\* counter alone; the source is not modified during the scan.
C16_ScanStepFrame ==
    /\ [][ScanFrame]_vars
    /\ [](pc # "idle" => scanner.source = input)

\* C16 witness: a scan has consumed a newline, an unrecognized character, a
\* token and a space: one error, one token, line counter at 2.
C16_Witness ==
    /\ pc = "loop"
    /\ input = <<NL, "@", "(", " ">>
    /\ scanner.current_idx = 4
    /\ Len(scanner.errors) = 1
    /\ Len(scanner.tokens) = 1
    /\ scanner.current_line = 2

\* C17: no scan pushes a token of an identifier, string, number or keyword
\* kind, and every token, Eof included, has no literal: the kinds that occur
\* are single-character kinds, one-or-two-character kinds and Eof.
C17_OnlyPunctuationKinds ==
    \A i \in 1..Len(scanner.tokens) :
        /\ scanner.tokens[i].token_type \in TokenType
        /\ scanner.tokens[i].token_type \notin LiteralKinds \cup KeywordKinds
        /\ scanner.tokens[i].token_type \in
               SingleCharKinds \cup OneOrTwoCharKinds \cup {"Eof"}
        /\ scanner.tokens[i].literal = None

\* C17 witness: test_scan_4 has been scanned: eight tokens and Eof, none
\* with a literal.
C17_Witness ==
    /\ pc = "returned"
    /\ input = TestScan4
    /\ Len(scanner.tokens) = 9
    /\ \A i \in 1..9 : scanner.tokens[i].literal = None

\* The match of Interpreter::run is the only step that may change
\* had_error, and it leaves it true exactly when it was true before or
\* get_tokens returned Err.
HadErrorStep ==
    /\ pc = "returned" /\ pc' # "returned" =>
           had_error' = (had_error \/ result.tag = "Err")
    /\ pc # "returned" => had_error' = had_error
    /\ had_error => had_error'

\* C18: had_error is false on a new Interpreter; each run leaves it equal to
\* its value before or'ed with "get_tokens returned Err"; a later run
\* without errors never resets it.
C18_HadErrorSticky ==
    /\ [][HadErrorStep]_vars
    /\ []((pc = "idle" /\ result.tag = "None") => ~had_error)
    /\ [](had_error \in BOOLEAN)

\* C18 witness: on an Interpreter whose had_error is set, a later run whose
\* scan gave no error has ended, and had_error is still set.
C18_Witness ==
    /\ pc = "idle"
    /\ had_error
    /\ result.tag = "Ok"

====
